---- MODULE Spec2Model ----
(***************************************************************************)
(* A model of the ACP service of plugin-virtuals-acp (src/src/service.ts): *)
(* the connection bootstrap of AcpService.start, the job-type registry,    *)
(* and the routing of inbound job callbacks (handleNewTask) to a           *)
(* predetermined handler or to the Eliza delegation path.                  *)
(*                                                                         *)
(* The protocol client, the job objects, the predetermined handlers and    *)
(* the Eliza runtime are external: each call into them is issued by one    *)
(* step and answered by a later step that either returns or raises.  The   *)
(* steps of one routing invocation are the stretches of code between two   *)
(* awaits.                                                                 *)
(***************************************************************************)
EXTENDS Integers, Sequences, FiniteSets, TLC

(* ------------------------------ bounds -------------------------------- *)

\* Number of inbound job callbacks in one run.
MaxJobs == 1
\* Number of updateJobTypeRegistry calls in one run.
MaxUpdates == 1
\* Number of updateJobTypeRegistry calls in one run of SpecMerge.
MaxMerges == 2
\* Number of further services constructed in one run of SpecInstances.
MaxInstances == 2
\* Number of times the pipeline invokes one reply callback.
MaxReplies == 2

JobIds == 1..MaxJobs

\* The jobs whose callbacks can be in progress at the same time: one more
\* than those of the sequential runs.
ConcurrentJobs == 1..(MaxJobs + 1)

(* ------------------------- program constants -------------------------- *)

\* setupClientWithRetry(maxRetries = 3)
maxRetries == 3

ACP_SERVICE_NAME == "virtuals-acp"

\* The members of AcpJobPhases the code names.
Phases == {"REQUEST", "NEGOTIATION", "TRANSACTION", "EVALUATION"}
\* memoToSign?.nextPhase of an absent memo.
Undefined == "undefined"
\* A phase field that has not been read yet.
Unread == "unread"

AcceptReason == "Job requirement matches agent capability"
CapabilityRejectReason == "Job requirement does not meet agent capability"
ProcessRejectReason == "Unable to process job requirement"
\* The template of the createRequirement text; ${jobIdStr} is the id of the
\* job the call is made on.
RequirementText == "Job ${jobIdStr} accepted, please make payment to proceed"

(* ----------------------------- requirements --------------------------- *)

\* query.length > 10000
MaxQueryLength == 10000

\* A requirement's query: its length and the words it contains, as spelt.
Query(len, words) == [length |-> len, words |-> words]
NoRequirement == Query(0, {})

\* The requirements of the jobs handed to the service's capability check: a
\* plain query, one with an unsupported keyword, one that is too long.
RequirementInputs ==
    { Query(5, {"weather"}), Query(7, {"illegal"}),
      Query(MaxQueryLength + 1, {"weather"}) }

\* query.toLowerCase(), word by word.
Lower(w) ==
    IF w = "Harmful" THEN "harmful"
    ELSE IF w = "DANGEROUS" THEN "dangerous"
    ELSE w

\* const unsupportedKeywords = ["illegal", "harmful", "dangerous"]
unsupportedKeywords == {"illegal", "harmful", "dangerous"}

\* Mutant of canHandleQuery: the keywords are looked for in the query as
\* spelt, and 'dangerous' is not one of them.
canHandleQuery_AsDocumented(q) ==
    IF q.length > MaxQueryLength THEN FALSE
    ELSE IF \E w \in q.words : w \in {"illegal", "harmful"} THEN FALSE
    ELSE TRUE

\* canHandleQuery(requirement)
canHandleQuery(q) ==
    IF q.length > MaxQueryLength THEN FALSE
    ELSE IF \E keyword \in unsupportedKeywords :
                \E w \in q.words : Lower(w) = keyword THEN FALSE
    ELSE TRUE

\* The requirements of the jobs given to handleGeneralQuery.
QueryInputs ==
    { Query(5, {"weather"}), Query(MaxQueryLength, {"weather"}),
      Query(MaxQueryLength + 1, {"weather"}), Query(7, {"illegal"}),
      Query(7, {"Harmful"}), Query(20, {"weather", "DANGEROUS"}) }

\* requirement.expectedFormat
NoFormat == "absent"
FormatInputs == {NoFormat, "text", "json", "markdown"}

(* ------------------------------ registry ------------------------------ *)

NoHandler == "none"

Predetermined(h) == [handlerType |-> "predetermined", handler |-> h]
Eliza == [handlerType |-> "eliza", handler |-> NoHandler]
\* An entry whose handlerType is neither of the two the type declares.
Custom == [handlerType |-> "custom", handler |-> NoHandler]

\* createDefaultJobTypeRegistry(): the object literal is empty.
createDefaultJobTypeRegistry == [k \in {} |-> Eliza]

\* Mutant of Spread: an entry present on both sides is merged field by
\* field, so a handler the new entry does not set survives.
Spread_FieldWise(a, b) ==
    [k \in (DOMAIN a) \cup (DOMAIN b) |->
        IF k \in DOMAIN b
        THEN (IF k \in DOMAIN a /\ b[k].handler = NoHandler
              THEN [handlerType |-> b[k].handlerType, handler |-> a[k].handler]
              ELSE b[k])
        ELSE a[k]]

\* Mutant of Spread: a key present on both sides is deleted instead of
\* overwritten.
Spread_DropsClash(a, b) ==
    [k \in ((DOMAIN a) \cup (DOMAIN b)) \ ((DOMAIN a) \cap (DOMAIN b)) |->
        IF k \in DOMAIN b THEN b[k] ELSE a[k]]

\* { ...a, ...b }: b's entries replace a's as a whole.
Spread(a, b) ==
    [k \in (DOMAIN a) \cup (DOMAIN b) |-> IF k \in DOMAIN b THEN b[k] ELSE a[k]]

\* The registries the embedding code passes to the constructor and to
\* updateJobTypeRegistry.  The first is an absent configuration.
ConfigA == [k \in {"swap", "chat"} |-> IF k = "swap" THEN Eliza ELSE Predetermined("h1")]
ConfigB == [k \in {"swap", "chat"} |-> IF k = "swap" THEN Predetermined(NoHandler) ELSE Custom]
ConfigInputs == {createDefaultJobTypeRegistry, ConfigA, ConfigB}

UpdateInputs ==
    { [k \in {"chat"} |-> Eliza],
      [k \in {"swap"} |-> Predetermined("h2")] }

\* Every registry over the two names and four kinds of entry.
EntryInputs == {Predetermined("h1"), Predetermined(NoHandler), Eliza, Custom}
RegistryInputs == UNION {[d -> EntryInputs] : d \in SUBSET {"swap", "chat"}}

\* The configuration objects the embedding code holds: none, or one of two.
ConfigRefs == {"none", "A", "B"}
ConfigAt(ref) ==
    IF ref = "A" THEN ConfigA ELSE IF ref = "B" THEN ConfigB
    ELSE createDefaultJobTypeRegistry
ConfigObject(ref) == [kind |-> "config", ref |-> ref, serial |-> 0]

\* The constructor's jobTypeRegistry: the defaults overlaid with
\* config?.jobTypeRegistry || {}.
NewRegistry(cfg) == Spread(createDefaultJobTypeRegistry, cfg)

\* Mutant of NewRegistryObject: the constructor keeps the object it was given.
NewRegistryObject_Aliases(ref, n) ==
    IF ref # "none" THEN ConfigObject(ref)
    ELSE [kind |-> "literal", ref |-> "none", serial |-> n]

\* The object literal of the constructor is a new object for every service.
NewRegistryObject(ref, n) == [kind |-> "literal", ref |-> "none", serial |-> n]

\* Job names an inbound job carries: two registrable names, a name that is a
\* member of Object.prototype, and an absent name.
NoName == ""
InheritedNames == {"toString"}
JobNameInputs == {"swap", "chat", "toString", NoName}

(* ------------------------------- state -------------------------------- *)

VARIABLES
    settings,      \* which of the three runtime settings are present
    startPc,       \* position of AcpService.start
    i,             \* loop index of setupClientWithRetry
    outcomes,      \* outcome of every setupClient call so far, in order
    delays,        \* the setTimeout delays (ms) inserted so far, in order
    contractBuilt, \* attempts that called createAcpContractClient
    clientBuilt,   \* attempts whose AcpClient constructor returned
    client,        \* this.client: 0 while unset, else the attempt that set it
    startError,    \* message of the Error start threw
    registry,      \* this.jobConfig.jobTypeRegistry
    updates,       \* updateJobTypeRegistry calls so far
    applied,       \* the arguments of those calls, in order
    instances,     \* further services built by new AcpService(runtime, config)
    queries,       \* calls of the forwarding methods by the embedding code
    notifyRun,     \* one call of createNotification(jobId, content)
    handlerRun,    \* one call of the exported handleGeneralQuery(runtime, job, memo)
    callbacks,     \* per job callback: the invocations of the reply callback
    capability,    \* the checkElizaCapability in effect
    pc,            \* per job callback: position of handleNewTask
    jobName,       \* per job callback: job.name as destructured on entry
    hasMemo,       \* per job callback: whether memoToSign was passed
    jobPhase,      \* per job callback: job.phase as read by processJobWithEliza
    requirement,   \* per job callback: job.requirement of the job handed to
                   \* checkElizaCapability
    nextPhase,     \* per job callback: memoToSign?.nextPhase as read there
    config,        \* per job callback: the jobTypeConfig looked up
    lookups,       \* per job callback: getAccountByJobId calls on the client
    account,       \* per job callback: how that call settled
    invoked,       \* per job callback: predetermined handler invocations
    calls,         \* per job callback: accept/reject/createRequirement/deliver
    connected,     \* per job callback: runtime.ensureConnection calls
    emitted,       \* per job callback: messages given to runtime.emitEvent
    reply,         \* per job callback: content the reply callback received
    memories       \* response memories stored by runtime.createMemory

bootVars == <<settings, startPc, i, outcomes, delays, contractBuilt, clientBuilt,
              client, startError>>
regVars == <<registry, updates, applied>>
sideVars == <<instances, queries, notifyRun, handlerRun, callbacks>>
jobVars == <<pc, jobName, hasMemo, jobPhase, requirement, nextPhase, config, lookups, account, invoked,
             calls, connected, emitted, reply, memories>>
vars == <<bootVars, regVars, sideVars, capability, jobVars>>

(* ------------------------- connection bootstrap ----------------------- *)

SettingInputs ==
    [privateKey : BOOLEAN, entityId : BOOLEAN, agentAddress : BOOLEAN]

AllSettings == [privateKey |-> TRUE, entityId |-> TRUE, agentAddress |-> TRUE]

NoError == [service |-> "", cause |-> ""]

\* Mutant of MissingSetting: the guard on the agent wallet address is missing.
MissingSetting_NoAddressGuard(s) ==
    IF ~s.privateKey THEN "ACP_WALLET_PRIVATE_KEY is required"
    ELSE IF ~s.entityId THEN "ACP_ENTITY_ID is required"
    ELSE ""

\* The guards of setupClient: the error of the first missing setting, "" if
\* none is missing.
MissingSetting(s) ==
    IF ~s.privateKey THEN "ACP_WALLET_PRIVATE_KEY is required"
    ELSE IF ~s.entityId THEN "ACP_ENTITY_ID is required"
    ELSE IF ~s.agentAddress THEN "ACP_AGENT_WALLET_ADDRESS is required"
    ELSE ""

\* What the external constructors can do once the settings are present.
ExternalOutcomes == {"ok", "contract client build failed", "AcpClient constructor failed"}

\* The outcomes one setupClient call can have.
SetupOutcomes(s) ==
    IF MissingSetting(s) # "" THEN {MissingSetting(s)} ELSE ExternalOutcomes

\* Mutant of BackoffDelay: the exponent is the attempt number, not the index.
BackoffDelay_FromAttemptNumber(n) == (2 ^ (n + 1)) * 1000

\* const delay = Math.pow(2, i) * 1000
BackoffDelay(n) == (2 ^ n) * 1000

\* Mutant of AfterAttempt: the loop lacks its return and goes on after a
\* successful setupClient.
AfterAttempt_NoReturn(outcome, n) ==
    IF outcome = "ok" THEN "continue"
    ELSE IF n < maxRetries - 1 THEN "retry"
    ELSE "throw"

\* The body of the retry loop after setupClient settled at index n:
\* return on success, sleep and retry before the last index, else rethrow.
AfterAttempt(outcome, n) ==
    IF outcome = "ok" THEN "return"
    ELSE IF n < maxRetries - 1 THEN "retry"
    ELSE "throw"

\* Mutant of WrapStartError: start rethrows the failure as it caught it.
WrapStartError_Rethrows(e) == [service |-> "", cause |-> e]

\* start's catch: the wrapped failure.
WrapStartError(e) == [service |-> ACP_SERVICE_NAME, cause |-> e]

\* Mutant of StoredClient: this.client is assigned the object under
\* construction before the AcpClient constructor has returned.
StoredClient_BeforeConstructed(outcome, n, old) ==
    IF outcome \in {"ok", "AcpClient constructor failed"} THEN n ELSE old

\* this.client = new AcpClient(...): the field is assigned only when the
\* constructor of attempt n returned; a failed attempt leaves it as it was.
StoredClient(outcome, n, old) == IF outcome = "ok" THEN n ELSE old

\* One iteration of the loop of setupClientWithRetry: a setupClient call and
\* what the loop does with its outcome.
SetupAttempt ==
    /\ startPc = "setup"
    /\ i < maxRetries
    /\ \E o \in SetupOutcomes(settings) :
        LET n == Len(outcomes) + 1
            next == AfterAttempt(o, i)
        IN  /\ outcomes' = Append(outcomes, o)
            /\ contractBuilt' = IF MissingSetting(settings) = ""
                                THEN contractBuilt \cup {n} ELSE contractBuilt
            /\ clientBuilt' = IF o = "ok" THEN clientBuilt \cup {n} ELSE clientBuilt
            /\ client' = StoredClient(o, n, client)
            /\ delays' = IF next = "retry" THEN Append(delays, BackoffDelay(i)) ELSE delays
            /\ startPc' = CASE next = "return" -> "started"
                            [] next = "retry" -> "backoff"
                            [] next = "throw" -> "failed"
                            [] OTHER -> "setup"
            /\ i' = IF next \in {"return", "retry", "throw"} THEN i ELSE i + 1
            /\ startError' = IF next = "throw" THEN WrapStartError(o) ELSE startError
    /\ UNCHANGED <<settings, regVars, sideVars, capability, jobVars>>

\* The setTimeout of the backoff fires and the loop goes to its next index.
BackoffElapsed ==
    /\ startPc = "backoff"
    /\ i' = i + 1
    /\ startPc' = "setup"
    /\ UNCHANGED <<settings, outcomes, delays, contractBuilt, clientBuilt, client,
                   startError, regVars, sideVars, capability, jobVars>>

(* -------------------------------- routing ----------------------------- *)

NotFound == [found |-> FALSE, handlerType |-> Undefined, handler |-> NoHandler]

\* jobName ? this.jobConfig.jobTypeRegistry[jobName] : null.  The registry is
\* an object literal, so a name that is a member of Object.prototype reads
\* that member: a truthy value with no handlerType.
Lookup(reg, name) ==
    IF name = NoName THEN NotFound
    ELSE IF name \in DOMAIN reg
         THEN [found |-> TRUE, handlerType |-> reg[name].handlerType,
               handler |-> reg[name].handler]
    ELSE IF name \in InheritedNames
         THEN [found |-> TRUE, handlerType |-> Undefined, handler |-> NoHandler]
    ELSE NotFound

\* Mutant of Route: a predetermined entry without a handler falls through to
\* the eliza path.
Route_MissingHandlerDelegates(cfg) ==
    IF ~cfg.found THEN "return"
    ELSE IF cfg.handlerType = "predetermined" /\ cfg.handler # NoHandler THEN "handler"
    ELSE IF cfg.handlerType \in {"predetermined", "eliza"} THEN "eliza"
    ELSE "nothing"

\* Mutant of Route: the last branch is an else, not an else-if on 'eliza'.
Route_DefaultsToEliza(cfg) ==
    IF ~cfg.found THEN "return"
    ELSE IF cfg.handlerType = "predetermined"
         THEN (IF cfg.handler # NoHandler THEN "handler" ELSE "warn")
    ELSE "eliza"

\* The branch handleNewTask takes on the looked-up configuration.
Route(cfg) ==
    IF ~cfg.found THEN "return"
    ELSE IF cfg.handlerType = "predetermined"
         THEN (IF cfg.handler # NoHandler THEN "handler" ELSE "warn")
    ELSE IF cfg.handlerType = "eliza" THEN "eliza"
    ELSE "nothing"

\* Mutant of OnLookupFailure: handleNewTask catches the failure of the
\* account lookup and returns.
OnLookupFailure_Swallows == "swallow"

\* handleNewTask awaits getAccountByJobId outside any try block and
\* getAccountByJobId rethrows what the client raised.
OnLookupFailure == "raise"

\* The catch around the predetermined handler only logs.
OnHandlerFailure == "swallow"

\* Mutant of ElizaBranch: the branches test the job phase alone.
ElizaBranch_IgnoresMemo(phase, next) ==
    IF phase = "REQUEST" THEN "request"
    ELSE IF phase = "TRANSACTION" THEN "transaction"
    ELSE "unhandled"

\* The two conditionals of processJobWithEliza.
ElizaBranch(phase, next) ==
    IF phase = "REQUEST" /\ next = "NEGOTIATION" THEN "request"
    ELSE IF phase = "TRANSACTION" /\ next = "EVALUATION" THEN "transaction"
    ELSE "unhandled"

\* Mutant of checkElizaCapability: the check permits no job.
checkElizaCapability_PermitsNone(j) == FALSE

\* checkElizaCapability returns true; a double installed in its place returns
\* what it is set to.
checkElizaCapability(j) == capability # "denies"

\* Mutant of OnCapability: the result of the capability check is not used.
OnCapability_AlwaysAccepts(canHandle) == "accept"

\* if (canHandle) accept ... else reject ...
OnCapability(canHandle) == IF canHandle THEN "accept" ELSE "reject"

\* Mutant of AfterAccept: createRequirement is issued whether or not accept
\* returned.
AfterAccept_IgnoresFailure(ok) == "createRequirement"

\* await job.accept(...); await job.createRequirement(...): the second call
\* is reached only if the first returned.
AfterAccept(ok) == IF ok THEN "createRequirement" ELSE "caught"

\* The catch of processJobWithEliza only logs, whatever raised.
OnSubmitFailure == "caught"

\* Mutant of OnDeliverFailure: the catch rejects the job.
OnDeliverFailure_Rejects == "reject"

\* A failure of job.deliver reaches the same catch.
OnDeliverFailure == "caught"

NoReply == [received |-> FALSE, hasText |-> FALSE, text |-> ""]

\* What the pipeline can pass to the reply callback: content without text,
\* with empty text, with text.
ReplyInputs ==
    { [received |-> TRUE, hasText |-> FALSE, text |-> ""],
      [received |-> TRUE, hasText |-> TRUE, text |-> ""],
      [received |-> TRUE, hasText |-> TRUE, text |-> "answer A"],
      [received |-> TRUE, hasText |-> TRUE, text |-> "answer B"] }

\* Mutant of SettledWithoutReply: a timer settles the promise as a reply
\* without content would.
SettledWithoutReply_Timer == {NoReply}

\* What settles the promise of processJobWithElizaAI other than the reply
\* callback: nothing, the executor sets no timer and races no other promise.
SettledWithoutReply == {}

\* Mutant of NoText: the callback tests content.text === undefined.
NoText_OnlyAbsent(content) == ~content.hasText

\* !content.text
NoText(content) == ~content.hasText \/ content.text = ""

Str(s) == [type |-> "string", value |-> s]
NullDeliverable == [type |-> "null", value |-> ""]

\* Mutant of Deliverable: the deliverable does not carry the reply text.
Deliverable_DropsText(content) == [type |-> "text", value |-> ""]

\* The deliverable the reply callback builds from the content.
Deliverable(content) == [type |-> "text", value |-> content.text]

\* if (deliverable) deliver ... else reject ...
OnDeliverable(d) == IF d # NullDeliverable THEN "deliver" ELSE "reject"

\* Mutant of OnRecordFailure: the catch of the reply callback resolves the
\* promise with a deliverable.
OnRecordFailure_Delivers == [type |-> "text", value |-> "unrecorded"]

\* The catch of the reply callback resolves the promise with null.
OnRecordFailure == NullDeliverable

\* Mutant of Set: the callbacks of all jobs share one frame.
Set_Shared(f, j, v) == [k \in DOMAIN f |-> v]

\* A write to a local, or to the state a closure captured, of the callback
\* of job j.
Set(f, j, v) == [f EXCEPT ![j] = v]
Issue(cs, op, arg) == Append(cs, [op |-> op, arg |-> arg, status |-> "pending"])
Settle(cs, ok) == [cs EXCEPT ![Len(cs)].status = IF ok THEN "ok" ELSE "threw"]

\* The message processJobWithElizaAI hands to emitEvent.
Message(j) == [jobId |-> j, jobName |-> jobName[j], source |-> "acp"]

\* The arguments handleNewTask passes to a predetermined handler.
HandlerCall(j, h) == [handler |-> h, job |-> j, service |-> "this", memo |-> hasMemo[j]]

\* memoToSign?.nextPhase
NextPhaseInputs(memo) == IF memo THEN Phases ELSE {Undefined}

\* onNewTask(job, memoToSign?): handleNewTask up to its first await, the
\* account lookup on the client.
NewTask(j) ==
    /\ client # 0
    /\ pc[j] = "idle"
    /\ \A k \in JobIds : k < j => pc[k] # "idle"
    /\ \E name \in JobNameInputs, memo \in BOOLEAN :
        /\ jobName' = Set(jobName, j, name)
        /\ hasMemo' = Set(hasMemo, j, memo)
    /\ lookups' = Set(lookups, j, lookups[j] + 1)
    /\ account' = Set(account, j, "pending")
    /\ pc' = Set(pc, j, "getAccount")
    /\ UNCHANGED <<bootVars, regVars, sideVars, capability, jobPhase, requirement, nextPhase, config,
                   invoked, calls, connected, emitted, reply, memories>>

\* processJobWithEliza up to its first await.
EnterEliza(j) ==
    \E ph \in Phases, nx \in NextPhaseInputs(hasMemo[j]), req \in RequirementInputs :
        LET branch == ElizaBranch(ph, nx)
            first == IF branch = "request"
                     THEN OnCapability(checkElizaCapability(j))
                     ELSE IF branch = "transaction" THEN "ensureConnection"
                     ELSE "done"
        IN  /\ jobPhase' = Set(jobPhase, j, ph)
            /\ nextPhase' = Set(nextPhase, j, nx)
            /\ requirement' = Set(requirement, j,
                    IF branch = "request" THEN req ELSE NoRequirement)
            /\ pc' = Set(pc, j, first)
            /\ calls' = Set(calls, j,
                    IF first = "accept"
                    THEN Issue(calls[j], "accept", Str(AcceptReason))
                    ELSE IF first = "reject"
                    THEN Issue(calls[j], "reject", Str(CapabilityRejectReason))
                    ELSE calls[j])
            /\ connected' = Set(connected, j,
                    IF first = "ensureConnection"
                    THEN Append(connected[j], "pending") ELSE connected[j])
            /\ UNCHANGED invoked

\* The account lookup settles: handleNewTask from there to its next await.
AccountReturn(j) ==
    /\ pc[j] = "getAccount"
    /\ \E ok \in BOOLEAN :
        /\ account' = Set(account, j, IF ok THEN "ok" ELSE "threw")
        /\ IF ~ok
           THEN /\ pc' = Set(pc, j, IF OnLookupFailure = "raise" THEN "raised" ELSE "done")
                /\ UNCHANGED <<config, jobPhase, requirement, nextPhase, invoked, calls, connected>>
           ELSE LET cfg == Lookup(registry, jobName[j])
                    route == Route(cfg)
                IN  /\ config' = Set(config, j, cfg)
                    /\ IF route = "handler"
                       THEN /\ invoked' = Set(invoked, j,
                                   Append(invoked[j], HandlerCall(j, cfg.handler)))
                            /\ pc' = Set(pc, j, "handler")
                            /\ UNCHANGED <<jobPhase, requirement, nextPhase, calls, connected>>
                       ELSE IF route = "eliza"
                       THEN EnterEliza(j)
                       ELSE /\ pc' = Set(pc, j, "done")
                            /\ UNCHANGED <<jobPhase, requirement, nextPhase, invoked, calls, connected>>
    /\ UNCHANGED <<bootVars, regVars, sideVars, capability, jobName, hasMemo, lookups,
                   emitted, reply, memories>>

\* The predetermined handler settles.
HandlerReturn(j) ==
    /\ pc[j] = "handler"
    /\ \E ok \in BOOLEAN :
        pc' = Set(pc, j, IF ok \/ OnHandlerFailure = "swallow" THEN "done" ELSE "raised")
    /\ UNCHANGED <<bootVars, regVars, sideVars, capability, jobName, hasMemo, jobPhase,
                   requirement, nextPhase, config, lookups, account, invoked, calls, connected, emitted,
                   reply, memories>>

\* job.accept settles.
AcceptReturn(j) ==
    /\ pc[j] = "accept"
    /\ \E ok \in BOOLEAN :
        LET settled == Settle(calls[j], ok)
        IN  IF AfterAccept(ok) = "createRequirement"
            THEN /\ calls' = Set(calls, j,
                        Issue(settled, "createRequirement", Str(RequirementText)))
                 /\ pc' = Set(pc, j, "createRequirement")
            ELSE /\ calls' = Set(calls, j, settled)
                 /\ pc' = Set(pc, j, "done")
    /\ UNCHANGED <<bootVars, regVars, sideVars, capability, jobName, hasMemo, jobPhase,
                   requirement, nextPhase, config, lookups, account, invoked, connected, emitted, reply,
                   memories>>

\* job.createRequirement settles; a failure is caught and logged.
CreateRequirementReturn(j) ==
    /\ pc[j] = "createRequirement"
    /\ \E ok \in BOOLEAN : calls' = Set(calls, j, Settle(calls[j], ok))
    /\ pc' = Set(pc, j, "done")
    /\ UNCHANGED <<bootVars, regVars, sideVars, capability, jobName, hasMemo, jobPhase,
                   requirement, nextPhase, config, lookups, account, invoked, connected, emitted, reply,
                   memories>>

\* job.reject settles; a failure is caught and logged.
RejectReturn(j) ==
    /\ pc[j] = "reject"
    /\ \E ok \in BOOLEAN : calls' = Set(calls, j, Settle(calls[j], ok))
    /\ pc' = Set(pc, j, "done")
    /\ UNCHANGED <<bootVars, regVars, sideVars, capability, jobName, hasMemo, jobPhase,
                   requirement, nextPhase, config, lookups, account, invoked, connected, emitted, reply,
                   memories>>

\* job.deliver settles; a failure is caught and logged.
DeliverReturn(j) ==
    /\ pc[j] = "deliver"
    /\ \E ok \in BOOLEAN :
        LET settled == Settle(calls[j], ok)
        IN  IF ~ok /\ OnDeliverFailure = "reject"
            THEN /\ calls' = Set(calls, j,
                        Issue(settled, "reject", Str(ProcessRejectReason)))
                 /\ pc' = Set(pc, j, "reject")
            ELSE /\ calls' = Set(calls, j, settled)
                 /\ pc' = Set(pc, j, "done")
    /\ UNCHANGED <<bootVars, regVars, sideVars, capability, jobName, hasMemo, jobPhase,
                   requirement, nextPhase, config, lookups, account, invoked, connected, emitted, reply,
                   memories>>

\* A failure while submitting reaches the catch of processJobWithEliza.
SubmitFailed(j) ==
    IF OnSubmitFailure = "reject"
    THEN /\ calls' = Set(calls, j, Issue(calls[j], "reject", Str(ProcessRejectReason)))
         /\ pc' = Set(pc, j, "reject")
    ELSE /\ pc' = Set(pc, j, "done")
         /\ UNCHANGED calls

\* processJobWithEliza resumes with the value the promise resolved to.
Resolved(j, d) ==
    IF OnDeliverable(d) = "deliver"
    THEN /\ calls' = Set(calls, j, Issue(calls[j], "deliver", d))
         /\ pc' = Set(pc, j, "deliver")
    ELSE /\ calls' = Set(calls, j, Issue(calls[j], "reject", Str(ProcessRejectReason)))
         /\ pc' = Set(pc, j, "reject")

\* runtime.ensureConnection settles; if it returned, the promise executor
\* calls runtime.emitEvent, which may raise.
EnsureConnectionReturn(j) ==
    /\ pc[j] = "ensureConnection"
    /\ \E ok \in BOOLEAN, emitOk \in BOOLEAN :
        /\ connected' = Set(connected, j,
                [connected[j] EXCEPT ![Len(connected[j])] = IF ok THEN "ok" ELSE "threw"])
        /\ IF ~ok
           THEN /\ emitOk
                /\ SubmitFailed(j)
                /\ UNCHANGED emitted
           ELSE /\ emitted' = Set(emitted, j,
                        Append(emitted[j], [message |-> Message(j), threw |-> ~emitOk]))
                /\ IF emitOk
                   THEN /\ pc' = Set(pc, j, "awaitReply")
                        /\ UNCHANGED calls
                   ELSE SubmitFailed(j)
    /\ UNCHANGED <<bootVars, regVars, sideVars, capability, jobName, hasMemo, jobPhase,
                   requirement, nextPhase, config, lookups, account, invoked, reply, memories>>

\* The pipeline invokes the reply callback: without text the promise resolves
\* with null, otherwise the callback awaits runtime.createMemory.
Reply(j) ==
    /\ pc[j] = "awaitReply"
    /\ \E content \in ReplyInputs \cup SettledWithoutReply :
        /\ reply' = Set(reply, j, content)
        /\ IF NoText(content)
           THEN Resolved(j, NullDeliverable)
           ELSE /\ pc' = Set(pc, j, "createMemory")
                /\ UNCHANGED calls
    /\ UNCHANGED <<bootVars, regVars, sideVars, capability, jobName, hasMemo, jobPhase,
                   requirement, nextPhase, config, lookups, account, invoked, connected, emitted, memories>>

\* runtime.createMemory settles: the promise resolves with the deliverable,
\* or with null from the callback's catch.
CreateMemoryReturn(j) ==
    /\ pc[j] = "createMemory"
    /\ \E ok \in BOOLEAN :
        IF ok
        THEN /\ memories' = memories \cup {[jobId |-> j, text |-> reply[j].text]}
             /\ Resolved(j, Deliverable(reply[j]))
        ELSE /\ UNCHANGED memories
             /\ Resolved(j, OnRecordFailure)
    /\ UNCHANGED <<bootVars, regVars, sideVars, capability, jobName, hasMemo, jobPhase,
                   requirement, nextPhase, config, lookups, account, invoked, connected, emitted, reply>>

(* --------------------------- repeated replies ------------------------- *)

\* Mutant of ResumesOn: every resolve resumes processJobWithEliza.
ResumesOn_EveryResolve(at) == TRUE

\* const deliverable = await this.processJobWithElizaAI(...): the promise
\* settles once, so only a resolve that finds processJobWithEliza waiting
\* resumes it.
ResumesOn(at) == at = "awaitReply"

\* The message of job j is with the pipeline, which holds the callback.
Submitted(j) ==
    /\ emitted[j] # <<>>
    /\ ~emitted[j][Len(emitted[j])].threw

\* Invocation k of the callback calls resolve(d).
Resolve(j, d) ==
    IF ResumesOn(pc[j])
    THEN Resolved(j, d)
    ELSE UNCHANGED <<pc, calls>>

\* The pipeline invokes the reply callback, for the first time or again:
\* the callback up to its await, or to its end if the content has no text.
ReplyCallback(j) ==
    /\ Submitted(j)
    /\ Len(callbacks[j]) < MaxReplies
    /\ \E content \in ReplyInputs :
        IF NoText(content)
        THEN /\ callbacks' = Set(callbacks, j, Append(callbacks[j],
                    [content |-> content, pc |-> "returned",
                     settled |-> ResumesOn(pc[j])]))
             /\ Resolve(j, NullDeliverable)
        ELSE /\ callbacks' = Set(callbacks, j, Append(callbacks[j],
                    [content |-> content, pc |-> "createMemory", settled |-> FALSE]))
             /\ UNCHANGED <<pc, calls>>
    /\ UNCHANGED <<bootVars, regVars, instances, queries, notifyRun, handlerRun, capability,
                   jobName, hasMemo, jobPhase, requirement, nextPhase, config, lookups,
                   account, invoked, connected, emitted, reply, memories>>

\* runtime.createMemory of invocation k of the callback settles.
CallbackMemoryStored(j, k) ==
    /\ callbacks[j][k].pc = "createMemory"
    /\ \E ok \in BOOLEAN :
        LET content == callbacks[j][k].content
        IN  /\ memories' = IF ok THEN memories \cup {[jobId |-> j, text |-> content.text]}
                           ELSE memories
            /\ callbacks' = Set(callbacks, j,
                    [callbacks[j] EXCEPT ![k].pc = "returned",
                                         ![k].settled = ResumesOn(pc[j])])
            /\ Resolve(j, IF ok THEN Deliverable(content) ELSE OnRecordFailure)
    /\ UNCHANGED <<bootVars, regVars, instances, queries, notifyRun, handlerRun, capability,
                   jobName, hasMemo, jobPhase, requirement, nextPhase, config, lookups,
                   account, invoked, connected, emitted, reply>>

(* ------------------------- forwarding queries ------------------------- *)

\* Number of forwarding-method calls in one run of SpecQueries.
MaxQueries == 1
QueryIds == 1..MaxQueries

\* The forwarding methods; each calls the client method of its own name.
PagedQueries ==
    {"getActiveJobs", "getCompletedJobs", "getCancelledJobs", "getPendingMemoJobs"}
NumericQueries == {"getJobById", "getMemoById", "getAccountByJobId"}
QueryMethods == PagedQueries \cup NumericQueries \cup {"getByClientAndProvider"}

\* The argument the caller passes: a decimal string, or a string that is not
\* a number.
QueryArgInputs == {"7", "abc"}

\* Number(jobId): the number a decimal string denotes, NaN for the other.
NumberOf(text) ==
    IF text = "7" THEN [kind |-> "number", text |-> text]
    ELSE [kind |-> "NaN", text |-> ""]

\* The argument the client method receives: Number(...) of an id, the
\* caller's value otherwise.
Forwarded(method, arg) ==
    IF method \in NumericQueries THEN NumberOf(arg)
    ELSE [kind |-> "asis", text |-> arg]

\* What the client's promise can settle with.
NoValue == "nothing"
ClientResults == {"r1", "r2"}
ClientFailures == {"e1", "e2"}

\* return await this.client.X(...): the caller gets the client's value.
OnQueryResult(r) == [pc |-> "returned", result |-> r, error |-> NoValue]

\* Mutant of OnQueryFailure: the catch logs and the method returns null.
OnQueryFailure_ReturnsNull(e) == [pc |-> "returned", result |-> "null", error |-> NoValue]

\* catch (error) { logger.error(...); throw error; }
OnQueryFailure(e) == [pc |-> "raised", result |-> NoValue, error |-> e]

NoQuery ==
    [pc |-> "idle", method |-> NoValue, arg |-> NoValue, clientCalls |-> <<>>,
     settled |-> NoValue, result |-> NoValue, error |-> NoValue]

(* --------------------------- createNotification ----------------------- *)

\* What client.getJobById can resolve to: no job, a job object without a
\* createNotification function, a job object with one.
NoJob == "null"
JobInputs == {NoJob, "job without createNotification", "job with createNotification"}

\* The memo identifiers job.createNotification can resolve to.
MemoIdInputs == {0, 7}

Null == [kind |-> "null", text |-> ""]

\* String(memoId)
StringOf(memoId) ==
    [kind |-> "string", text |-> IF memoId = 0 THEN "0" ELSE "7"]

\* return memoId ? String(memoId) : null
NotificationResult(memoId) == IF memoId # 0 THEN StringOf(memoId) ELSE Null

\* if (!job) return null; if (typeof createNotificationFn !== "function")
\* return null; otherwise the function is called.
AfterJobLookup(job) ==
    IF job = NoJob THEN "return null"
    ELSE IF job # "job with createNotification" THEN "return null"
    ELSE "notify"

NoNotifyRun ==
    [pc |-> "idle", arg |-> NoValue, clientCalls |-> <<>>, job |-> NoValue,
     notified |-> 0, memoId |-> 0, result |-> Null, error |-> NoValue]

notifyFrame ==
    <<bootVars, regVars, instances, queries, handlerRun, callbacks, capability, jobVars>>

\* createNotification(jobId, content) on the service start returned, up to
\* the await inside this.getJobById(jobId).
CreateNotification ==
    /\ startPc = "started"
    /\ notifyRun.pc = "idle"
    /\ \E arg \in QueryArgInputs :
        notifyRun' = [NoNotifyRun EXCEPT
            !.pc = "getJobById", !.arg = arg,
            !.clientCalls = <<[method |-> "getJobById",
                               arg |-> Forwarded("getJobById", arg)]>>]
    /\ UNCHANGED notifyFrame

\* client.getJobById settles: a failure is rethrown by getJobById and again
\* by the catch of createNotification.
NotifyJobReturn ==
    /\ notifyRun.pc = "getJobById"
    /\ \E ok \in BOOLEAN, job \in JobInputs, e \in ClientFailures :
        notifyRun' =
            IF ~ok
            THEN [notifyRun EXCEPT !.pc = OnQueryFailure(e).pc,
                                   !.error = OnQueryFailure(e).error]
            ELSE IF AfterJobLookup(job) = "notify"
            THEN [notifyRun EXCEPT !.job = job, !.pc = "notify", !.notified = @ + 1]
            ELSE [notifyRun EXCEPT !.job = job, !.pc = "returned", !.result = Null]
    /\ UNCHANGED notifyFrame

\* job.createNotification(content) settles.
NotificationReturn ==
    /\ notifyRun.pc = "notify"
    /\ \E ok \in BOOLEAN, memoId \in MemoIdInputs, e \in ClientFailures :
        notifyRun' =
            IF ok
            THEN [notifyRun EXCEPT !.pc = "returned", !.memoId = memoId,
                                   !.result = NotificationResult(memoId)]
            ELSE [notifyRun EXCEPT !.pc = "raised", !.error = e]
    /\ UNCHANGED notifyFrame

(* ------------------------------- registry ----------------------------- *)

\* The body of updateJobTypeRegistry(registry).
RegistryUpdate(inputs) ==
    /\ \E u \in inputs :
        /\ registry' = Spread(registry, u)
        /\ applied' = Append(applied, u)
    /\ updates' = updates + 1
    /\ UNCHANGED <<bootVars, sideVars, capability, jobVars>>

\* updateJobTypeRegistry(registry), called by the code that start returned
\* the service to.
UpdateJobTypeRegistry ==
    /\ startPc = "started"
    /\ updates < MaxUpdates
    /\ RegistryUpdate(UpdateInputs)

\* updateJobTypeRegistry(registry) on a service as constructed, with any
\* registry as its argument.
MergeRegistry ==
    /\ updates < MaxMerges
    /\ RegistryUpdate(RegistryInputs)

\* new AcpService(runtime, config): one more service.
Construct ==
    /\ Len(instances) < MaxInstances
    /\ \E ref \in ConfigRefs :
        instances' = Append(instances,
            [configRef |-> ref,
             registry |-> NewRegistry(ConfigAt(ref)),
             registryObj |-> NewRegistryObject(ref, Len(instances) + 1)])
    /\ UNCHANGED <<bootVars, regVars, queries, notifyRun, handlerRun, callbacks, capability, jobVars>>

\* One of the forwarding methods is called on the service start returned:
\* the method up to its await.
QueryCall(q) ==
    /\ startPc = "started"
    /\ queries[q].pc = "idle"
    /\ \E method \in QueryMethods, arg \in QueryArgInputs :
        queries' = Set(queries, q,
            [NoQuery EXCEPT !.pc = "pending", !.method = method, !.arg = arg,
                            !.clientCalls = <<[method |-> method,
                                               arg |-> Forwarded(method, arg)]>>])
    /\ UNCHANGED <<bootVars, regVars, instances, handlerRun, callbacks, notifyRun, capability, jobVars>>

\* The client's promise settles: the method from its await to its end.
QueryReturn(q) ==
    /\ queries[q].pc = "pending"
    /\ \E ok \in BOOLEAN, r \in ClientResults, e \in ClientFailures :
        LET given == IF ok THEN r ELSE e
            out == IF ok THEN OnQueryResult(r) ELSE OnQueryFailure(e)
        IN  queries' = Set(queries, q,
                [queries[q] EXCEPT !.pc = out.pc, !.settled = given,
                                   !.result = out.result, !.error = out.error])
    /\ UNCHANGED <<bootVars, regVars, instances, handlerRun, callbacks, notifyRun, capability, jobVars>>

(* ------------------------- handleGeneralQuery ------------------------- *)

\* A response text that JSON.parse accepts, and JSON.parse itself.
JsonText == "{\"n\": 1}"
JsonParse(text) ==
    IF text = JsonText THEN [ok |-> TRUE, value |-> "object with n = 1"]
    ELSE [ok |-> FALSE, value |-> ""]

\* Mutant of formatElizaResponse: the response is parsed whatever format the
\* requirement expects.
formatElizaResponse_IgnoresFormat(response, format) ==
    IF JsonParse(response).ok
    THEN [type |-> "object", value |-> JsonParse(response).value]
    ELSE [type |-> "text", value |-> response]

\* formatElizaResponse(response, requirement), without the time stamp.
formatElizaResponse(response, format) ==
    LET expectedFormat == IF format = NoFormat THEN "text" ELSE format
    IN  IF expectedFormat = "json" /\ JsonParse(response).ok
        THEN [type |-> "object", value |-> JsonParse(response).value]
        ELSE [type |-> "text", value |-> response]

\* What the pipeline can pass to the handler's callback.
HandlerReplyInputs ==
    ReplyInputs \cup {[received |-> TRUE, hasText |-> TRUE, text |-> JsonText]}

CallbackRejectReason == "Error processing response"

\* The two conditionals of handleGeneralQuery.
HandlerBranch(phase, next) ==
    IF phase = "REQUEST" /\ next = "NEGOTIATION" THEN "request"
    ELSE IF phase = "TRANSACTION" /\ next = "EVALUATION" THEN "transaction"
    ELSE "unhandled"

\* await job.accept(...); await job.createRequirement(...) outside any try.
HandlerAfterAccept(ok) == IF ok THEN "createRequirement" ELSE "raised"

\* if (!content.text) { logger.warn(...); return []; }
OnEmptyReply == "return"

\* The catch of the callback: await job.reject("Error processing response").
OnCallbackFailure == "reject"

\* The catch of the TRANSACTION branch:
\* await job.reject("Unable to process job requirement").
OnProcessingFailure == "reject"

NoHandlerRun ==
    [pc |-> "idle", phase |-> Unread, nextPhase |-> Unread, query |-> NoRequirement,
     format |-> NoFormat, calls |-> <<>>, incoming |-> "none", emitted |-> <<>>,
     replies |-> <<>>, stored |-> {}]

SettleAt(cs, k, ok) == [cs EXCEPT ![k].status = IF ok THEN "ok" ELSE "threw"]

handlerFrame ==
    <<bootVars, regVars, instances, queries, notifyRun, callbacks, capability, jobVars>>

\* handleGeneralQuery(runtime, job, memoToSign) up to its first await.
HandleGeneralQuery ==
    /\ handlerRun.pc = "idle"
    /\ \E ph \in Phases, memo \in BOOLEAN, q \in QueryInputs, fmt \in FormatInputs :
        \E nx \in NextPhaseInputs(memo) :
            LET branch == HandlerBranch(ph, nx)
                run == [NoHandlerRun EXCEPT !.phase = ph, !.nextPhase = nx]
            IN  handlerRun' =
                    IF branch = "request"
                    THEN [run EXCEPT
                            !.query = q,
                            !.pc = IF canHandleQuery(q) THEN "accept" ELSE "reject",
                            !.calls = IF canHandleQuery(q)
                                      THEN Issue(<<>>, "accept", Str(AcceptReason))
                                      ELSE Issue(<<>>, "reject", Str(CapabilityRejectReason))]
                    ELSE IF branch = "transaction"
                    THEN [run EXCEPT !.format = fmt, !.pc = "storeMessage",
                                     !.incoming = "pending"]
                    ELSE [run EXCEPT !.pc = "returned"]
    /\ UNCHANGED handlerFrame

\* job.accept settles.
HandlerAcceptReturn ==
    /\ handlerRun.pc = "accept"
    /\ \E ok \in BOOLEAN :
        LET settled == Settle(handlerRun.calls, ok)
        IN  handlerRun' =
                IF HandlerAfterAccept(ok) = "createRequirement"
                THEN [handlerRun EXCEPT
                        !.calls = Issue(settled, "createRequirement", Str(RequirementText)),
                        !.pc = "createRequirement"]
                ELSE [handlerRun EXCEPT !.calls = settled, !.pc = "raised"]
    /\ UNCHANGED handlerFrame

\* job.createRequirement settles.
HandlerCreateRequirementReturn ==
    /\ handlerRun.pc = "createRequirement"
    /\ \E ok \in BOOLEAN :
        handlerRun' = [handlerRun EXCEPT !.calls = Settle(handlerRun.calls, ok),
                                         !.pc = IF ok THEN "returned" ELSE "raised"]
    /\ UNCHANGED handlerFrame

\* job.reject of the REQUEST branch or of the catch of the TRANSACTION branch
\* settles.
HandlerRejectReturn ==
    /\ handlerRun.pc = "reject"
    /\ \E ok \in BOOLEAN :
        handlerRun' = [handlerRun EXCEPT !.calls = Settle(handlerRun.calls, ok),
                                         !.pc = IF ok THEN "returned" ELSE "raised"]
    /\ UNCHANGED handlerFrame

\* runtime.createMemory of the incoming message settles; if it returned the
\* handler calls runtime.emitEvent, which may raise, and returns.
HandlerStoreReturn ==
    /\ handlerRun.pc = "storeMessage"
    /\ \E ok \in BOOLEAN, emitOk \in BOOLEAN :
        /\ ~ok => emitOk
        /\ LET failed == ~ok \/ ~emitOk
               run == [handlerRun EXCEPT
                        !.incoming = IF ok THEN "ok" ELSE "threw",
                        !.emitted = IF ok THEN <<[threw |-> ~emitOk]>> ELSE <<>>]
           IN  handlerRun' =
                    IF failed /\ OnProcessingFailure = "reject"
                    THEN [run EXCEPT
                            !.calls = Issue(run.calls, "reject", Str(ProcessRejectReason)),
                            !.pc = "reject"]
                    ELSE [run EXCEPT !.pc = "returned"]
    /\ UNCHANGED handlerFrame

\* The pipeline invokes the handler's callback: the callback up to its
\* first await.
HandlerReply ==
    /\ handlerRun.emitted = <<[threw |-> FALSE]>>
    /\ Len(handlerRun.replies) < MaxReplies
    /\ \E content \in HandlerReplyInputs :
        handlerRun' =
            IF NoText(content) /\ OnEmptyReply = "return"
            THEN [handlerRun EXCEPT
                    !.replies = Append(@, [content |-> content, pc |-> "returned", at |-> 0])]
            ELSE [handlerRun EXCEPT
                    !.calls = Issue(@, "deliver",
                                    formatElizaResponse(content.text, handlerRun.format)),
                    !.replies = Append(@, [content |-> content, pc |-> "deliver",
                                           at |-> Len(handlerRun.calls) + 1])]
    /\ UNCHANGED handlerFrame

\* The callback's catch.
CallbackFailed(run, k) ==
    IF OnCallbackFailure = "reject"
    THEN [run EXCEPT !.calls = Issue(@, "reject", Str(CallbackRejectReason)),
                     !.replies[k].pc = "reject",
                     !.replies[k].at = Len(run.calls) + 1]
    ELSE [run EXCEPT !.replies[k].pc = "returned"]

\* job.deliver of callback invocation k settles.
CallbackDeliverReturn(k) ==
    /\ handlerRun.replies[k].pc = "deliver"
    /\ \E ok \in BOOLEAN :
        LET run == [handlerRun EXCEPT
                        !.calls = SettleAt(@, handlerRun.replies[k].at, ok)]
        IN  handlerRun' =
                IF ok THEN [run EXCEPT !.replies[k].pc = "createMemory"]
                ELSE CallbackFailed(run, k)
    /\ UNCHANGED handlerFrame

\* runtime.createMemory of callback invocation k settles.
CallbackMemoryReturn(k) ==
    /\ handlerRun.replies[k].pc = "createMemory"
    /\ \E ok \in BOOLEAN :
        handlerRun' =
            IF ok
            THEN [handlerRun EXCEPT
                    !.stored = @ \cup {handlerRun.replies[k].content.text},
                    !.replies[k].pc = "returned"]
            ELSE CallbackFailed(handlerRun, k)
    /\ UNCHANGED handlerFrame

\* job.reject of the catch of callback invocation k settles.
CallbackRejectReturn(k) ==
    /\ handlerRun.replies[k].pc = "reject"
    /\ \E ok \in BOOLEAN :
        handlerRun' = [handlerRun EXCEPT
                        !.calls = SettleAt(@, handlerRun.replies[k].at, ok),
                        !.replies[k].pc = IF ok THEN "returned" ELSE "raised"]
    /\ UNCHANGED handlerFrame

(* ---------------------------- specification --------------------------- *)

NoConfig == NotFound

\* The state after new AcpService(runtime, config), with the
\* checkElizaCapability given.
InitOf(capabilities, configs, settingInputs) ==
    /\ settings \in settingInputs
    /\ startPc = "setup"
    /\ i = 0
    /\ outcomes = <<>>
    /\ delays = <<>>
    /\ contractBuilt = {}
    /\ clientBuilt = {}
    /\ client = 0
    /\ startError = NoError
    /\ \E cfg \in configs : registry = NewRegistry(cfg)
    /\ updates = 0
    /\ applied = <<>>
    /\ instances = <<>>
    /\ queries = [q \in QueryIds |-> NoQuery]
    /\ notifyRun = NoNotifyRun
    /\ handlerRun = NoHandlerRun
    /\ callbacks = [j \in ConcurrentJobs |-> <<>>]
    /\ capability \in capabilities
    /\ pc = [j \in ConcurrentJobs |-> "idle"]
    /\ jobName = [j \in ConcurrentJobs |-> NoName]
    /\ hasMemo = [j \in ConcurrentJobs |-> FALSE]
    /\ jobPhase = [j \in ConcurrentJobs |-> Unread]
    /\ requirement = [j \in ConcurrentJobs |-> NoRequirement]
    /\ nextPhase = [j \in ConcurrentJobs |-> Unread]
    /\ config = [j \in ConcurrentJobs |-> NoConfig]
    /\ lookups = [j \in ConcurrentJobs |-> 0]
    /\ account = [j \in ConcurrentJobs |-> "none"]
    /\ invoked = [j \in ConcurrentJobs |-> <<>>]
    /\ calls = [j \in ConcurrentJobs |-> <<>>]
    /\ connected = [j \in ConcurrentJobs |-> <<>>]
    /\ emitted = [j \in ConcurrentJobs |-> <<>>]
    /\ reply = [j \in ConcurrentJobs |-> NoReply]
    /\ memories = {}

InitWith(capabilities) == InitOf(capabilities, ConfigInputs, SettingInputs)

Init == InitWith({"builtin"})

\* A service constructed with any registry as its configuration.
InitMerge == InitOf({"builtin"}, RegistryInputs, {AllSettings})

\* The service with a test double in place of checkElizaCapability.
InitStubbed == InitWith({"permits", "denies"})

Next ==
    \/ SetupAttempt
    \/ BackoffElapsed
    \/ UpdateJobTypeRegistry
    \/ \E j \in JobIds : NewTask(j)
    \/ \E j \in JobIds : AccountReturn(j)
    \/ \E j \in JobIds : HandlerReturn(j)
    \/ \E j \in JobIds : AcceptReturn(j)
    \/ \E j \in JobIds : CreateRequirementReturn(j)
    \/ \E j \in JobIds : RejectReturn(j)
    \/ \E j \in JobIds : EnsureConnectionReturn(j)
    \/ \E j \in JobIds : Reply(j)
    \/ \E j \in JobIds : CreateMemoryReturn(j)
    \/ \E j \in JobIds : DeliverReturn(j)

Spec == Init /\ [][Next]_vars

SpecStubbed == InitStubbed /\ [][Next]_vars

\* updateJobTypeRegistry alone, over every registry and every update.
NextMerge == MergeRegistry
SpecMerge == InitMerge /\ [][NextMerge]_vars

\* The bootstrap and the forwarding methods.
NextQueries ==
    \/ SetupAttempt
    \/ BackoffElapsed
    \/ \E q \in QueryIds : QueryCall(q) \/ QueryReturn(q)
SpecQueries == Init /\ [][NextQueries]_vars

\* One submission: the job callback whose reply callback the pipeline may
\* invoke more than once.
RepliedJobs == {1}

\* The service with a pipeline that may invoke the reply callback more than
\* once.
NextReplies ==
    \/ SetupAttempt
    \/ BackoffElapsed
    \/ \E j \in RepliedJobs :
        \/ NewTask(j)
        \/ AccountReturn(j)
        \/ HandlerReturn(j)
        \/ AcceptReturn(j)
        \/ CreateRequirementReturn(j)
        \/ RejectReturn(j)
        \/ DeliverReturn(j)
        \/ EnsureConnectionReturn(j)
        \/ ReplyCallback(j)
        \/ \E k \in 1..Len(callbacks[j]) : CallbackMemoryStored(j, k)
InitReplies == InitOf({"builtin"}, {ConfigA}, {AllSettings})
SpecReplies == InitReplies /\ [][NextReplies]_vars

\* The jobs the concurrent runs are about: jobs of a type routed to the
\* framework, in phase TRANSACTION with a memo proposing EVALUATION.
PipelineJobs ==
    \A j \in ConcurrentJobs :
        /\ pc[j] # "idle" => jobName[j] = "swap" /\ hasMemo[j]
        /\ jobPhase[j] # Unread =>
            jobPhase[j] = "TRANSACTION" /\ nextPhase[j] = "EVALUATION"

\* Several job callbacks in progress at once: the client library invokes the
\* callback of a job while those of earlier jobs are suspended.
NextConcurrent ==
    \/ SetupAttempt
    \/ BackoffElapsed
    \/ \E j \in ConcurrentJobs : NewTask(j) /\ PipelineJobs'
    \/ \E j \in ConcurrentJobs : AccountReturn(j) /\ PipelineJobs'
    \/ \E j \in ConcurrentJobs : EnsureConnectionReturn(j)
    \/ \E j \in ConcurrentJobs : Reply(j)
    \/ \E j \in ConcurrentJobs : CreateMemoryReturn(j)
    \/ \E j \in ConcurrentJobs : DeliverReturn(j)
    \/ \E j \in ConcurrentJobs : RejectReturn(j)
InitConcurrent == InitOf({"builtin"}, {ConfigA}, {AllSettings})
SpecConcurrent == InitConcurrent /\ [][NextConcurrent]_vars

\* The service with external calls that all settle and a pipeline that
\* invokes every reply callback it was given: a pending promise of the
\* client library or of the runtime eventually resolves or rejects.
Settling ==
    \A j \in JobIds :
        /\ WF_vars(AccountReturn(j))
        /\ WF_vars(HandlerReturn(j))
        /\ WF_vars(AcceptReturn(j))
        /\ WF_vars(CreateRequirementReturn(j))
        /\ WF_vars(RejectReturn(j))
        /\ WF_vars(EnsureConnectionReturn(j))
        /\ WF_vars(Reply(j))
        /\ WF_vars(CreateMemoryReturn(j))
        /\ WF_vars(DeliverReturn(j))
InitSettling == InitOf({"builtin"}, {ConfigA}, {AllSettings})
SpecSettling == InitSettling /\ [][Next]_vars /\ Settling

\* The exported handler alone, called on a job by the code that registered
\* it.
NextHandler ==
    \/ HandleGeneralQuery
    \/ HandlerAcceptReturn
    \/ HandlerCreateRequirementReturn
    \/ HandlerRejectReturn
    \/ HandlerStoreReturn
    \/ HandlerReply
    \/ \E k \in 1..Len(handlerRun.replies) :
            \/ CallbackDeliverReturn(k)
            \/ CallbackMemoryReturn(k)
            \/ CallbackRejectReturn(k)
InitHandler == InitOf({"builtin"}, {ConfigA}, {AllSettings})
SpecHandler == InitHandler /\ [][NextHandler]_vars

\* The bootstrap and createNotification.
NextNotify ==
    \/ SetupAttempt
    \/ BackoffElapsed
    \/ CreateNotification
    \/ NotifyJobReturn
    \/ NotificationReturn
SpecNotify == Init /\ [][NextNotify]_vars

\* Construction of services alone.
NextInstances == Construct
SpecInstances == Init /\ [][NextInstances]_vars

(* ------------------------------- claims ------------------------------- *)

Ops(cs) == [k \in 1..Len(cs) |-> cs[k].op]
Finished(j) == pc[j] \in {"done", "raised"}
RequestCase(j) == jobPhase[j] = "REQUEST" /\ nextPhase[j] = "NEGOTIATION"
TransactionCase(j) == jobPhase[j] = "TRANSACTION" /\ nextPhase[j] = "EVALUATION"
InElizaPath(j) == jobPhase[j] # Unread
Entry(j) == registry[jobName[j]]

\* C1: a job callback whose job-type name is absent from the registry makes no
\* call on the protocol client or the job (no lookup, accept, reject,
\* createRequirement, deliver) and does not raise.
C1_AbsentTypeNoCallNoRaise ==
    \A j \in JobIds :
        (pc[j] # "idle" /\ updates = 0 /\ jobName[j] \notin DOMAIN registry)
            => /\ lookups[j] = 0
               /\ calls[j] = <<>>
               /\ pc[j] # "raised"

\* C2: handleNewTask never raises to the protocol client that invoked it,
\* whatever fails while routing.
C2_RoutingNeverRaises ==
    \A j \in JobIds : pc[j] # "raised"

\* C3: a job whose registry entry is predetermined with a handler has that
\* handler invoked exactly once with (job, service, memo); the router
\* swallows the handler's failure and issues no protocol call itself.
C3_HandlerInvokedOnce ==
    \A j \in JobIds :
        (/\ Finished(j)
         /\ updates = 0
         /\ jobName[j] \in DOMAIN registry
         /\ Entry(j).handlerType = "predetermined"
         /\ Entry(j).handler # NoHandler)
            => /\ invoked[j] = << [handler |-> Entry(j).handler, job |-> j,
                                   service |-> "this", memo |-> hasMemo[j]] >>
               /\ calls[j] = <<>>
               /\ pc[j] = "done"

\* C4 as stated: in the REQUEST/NEGOTIATION case with the capability check
\* permitting, the calls issued are accept then createRequirement, each
\* exactly once, and nothing else.
C4_AcceptThenRequirementAlways ==
    \A j \in JobIds :
        (pc[j] = "done" /\ RequestCase(j) /\ capability # "denies")
            => Ops(calls[j]) = <<"accept", "createRequirement">>

\* C4 amended: in the REQUEST/NEGOTIATION case with the capability check
\* permitting, accept is issued exactly once and first; createRequirement is
\* issued exactly once after accept returned, and not at all if accept
\* raised; reject and deliver are never issued.
C4_AcceptThenRequirement ==
    \A j \in JobIds :
        (RequestCase(j) /\ capability # "denies")
            => /\ Ops(calls[j]) \in {<<"accept">>, <<"accept", "createRequirement">>}
               /\ calls[j][1].arg = [type |-> "string", value |-> AcceptReason]
               /\ Len(calls[j]) = 2 => calls[j][1].status = "ok"
               /\ pc[j] = "done" => (Len(calls[j]) = 2 <=> calls[j][1].status = "ok")
               /\ pc[j] = "done" => calls[j][Len(calls[j])].status # "pending"

C4_Witness ==
    \E j \in JobIds :
        /\ pc[j] = "done"
        /\ RequestCase(j)
        /\ Ops(calls[j]) = <<"accept", "createRequirement">>
        /\ calls[j][1].status = "ok"
        /\ calls[j][2].status = "ok"

\* C5: in the REQUEST/NEGOTIATION case a capability check returning false
\* results in exactly one reject call and no accept, createRequirement or
\* deliver call.
C5_DeniedRejectsOnce ==
    \A j \in JobIds :
        (RequestCase(j) /\ capability = "denies")
            => /\ Ops(calls[j]) = <<"reject">>
               /\ calls[j][1].arg = [type |-> "string", value |-> CapabilityRejectReason]

C5_Witness ==
    \E j \in JobIds :
        /\ pc[j] = "done"
        /\ RequestCase(j)
        /\ capability = "denies"
        /\ Ops(calls[j]) = <<"reject">>
        /\ calls[j][1].status = "ok"

HasText(c) == c.received /\ c.hasText /\ c.text # ""
Recorded(j) == [jobId |-> j, text |-> reply[j].text] \in memories

\* C6 as stated: in the TRANSACTION/EVALUATION case exactly one message is
\* submitted to the pipeline, and a non-empty reply that was recorded yields
\* exactly one deliver of a text deliverable with the reply text, no reject.
C6_OneMessageAlways ==
    \A j \in JobIds :
        (pc[j] = "done" /\ TransactionCase(j))
            => /\ Len(emitted[j]) = 1
               /\ (HasText(reply[j]) /\ Recorded(j))
                    => /\ Ops(calls[j]) = <<"deliver">>
                       /\ calls[j][1].arg = [type |-> "text", value |-> reply[j].text]

\* C6 amended: in the TRANSACTION/EVALUATION case at most one message is
\* submitted to the pipeline: exactly one once connection setup returned,
\* none while it is pending or if it raised; a non-empty reply that was
\* recorded yields exactly one deliver of a text deliverable whose value is
\* the reply text, and no reject.
C6_DeliversReplyText ==
    \A j \in JobIds :
        TransactionCase(j)
            => /\ Len(connected[j]) = 1
               /\ connected[j][1] = "ok" => Len(emitted[j]) = 1
               /\ connected[j][1] # "ok" => emitted[j] = <<>>
               /\ \A k \in 1..Len(emitted[j]) :
                    emitted[j][k].message = [jobId |-> j, jobName |-> jobName[j],
                                             source |-> "acp"]
               /\ reply[j].received => (Len(emitted[j]) = 1 /\ ~emitted[j][1].threw)
               /\ (HasText(reply[j]) /\ Recorded(j))
                    => /\ Ops(calls[j]) = <<"deliver">>
                       /\ calls[j][1].arg = [type |-> "text", value |-> reply[j].text]

C6_Witness ==
    \E j \in JobIds :
        /\ pc[j] = "done"
        /\ TransactionCase(j)
        /\ reply[j].text = "answer B"
        /\ Recorded(j)
        /\ Ops(calls[j]) = <<"deliver">>
        /\ calls[j][1].status = "ok"

\* C7: in the TRANSACTION/EVALUATION case a reply with empty or absent text
\* results in exactly one reject call, with the reason 'Unable to process job
\* requirement', and no deliver call.
C7_EmptyReplyRejects ==
    \A j \in JobIds :
        (TransactionCase(j) /\ reply[j].received /\ ~HasText(reply[j]))
            => /\ Ops(calls[j]) = <<"reject">>
               /\ calls[j][1].arg = [type |-> "string", value |-> ProcessRejectReason]

C7_Witness ==
    \E j \in JobIds :
        /\ pc[j] = "done"
        /\ TransactionCase(j)
        /\ reply[j].received /\ reply[j].hasText /\ reply[j].text = ""
        /\ Ops(calls[j]) = <<"reject">>

SubmissionRaised(j) ==
    \/ connected[j] = <<"threw">>
    \/ \E k \in 1..Len(emitted[j]) : emitted[j][k].threw

\* C8: in the TRANSACTION/EVALUATION case a failure raised while submitting
\* the job to the pipeline (connection setup or event emission) results in a
\* reject call with the fixed reason.
C8_SubmitFailureRejects ==
    \A j \in JobIds :
        (pc[j] = "done" /\ TransactionCase(j) /\ SubmissionRaised(j))
            => \E k \in 1..Len(calls[j]) :
                /\ calls[j][k].op = "reject"
                /\ calls[j][k].arg = [type |-> "string", value |-> ProcessRejectReason]

\* C9: in the delegation path every (phase, next phase) combination other
\* than REQUEST/NEGOTIATION and TRANSACTION/EVALUATION, an absent memo
\* included, makes no protocol call and submits nothing to the pipeline.
C9_UnhandledNoAction ==
    \A j \in JobIds :
        (InElizaPath(j) /\ ~RequestCase(j) /\ ~TransactionCase(j))
            => /\ calls[j] = <<>>
               /\ connected[j] = <<>>
               /\ emitted[j] = <<>>
               /\ invoked[j] = <<>>
               /\ pc[j] = "done"

C9_Witness ==
    \E j \in JobIds :
        /\ pc[j] = "done"
        /\ jobPhase[j] = "REQUEST"
        /\ ~hasMemo[j]
        /\ nextPhase[j] = Undefined
        /\ calls[j] = <<>>

\* C10: the bootstrap makes at most maxRetries (3) setupClient calls and then
\* stops; if call k is the first to succeed, exactly k calls are made, none
\* follows the success, and start returns the service.
C10_BootstrapBounded ==
    /\ Len(outcomes) <= maxRetries
    /\ \A k \in 1..Len(outcomes) :
        outcomes[k] = "ok" => /\ k = Len(outcomes)
                              /\ startPc = "started"
                              /\ client = k
    /\ startPc = "started" => (Len(outcomes) >= 1 /\ outcomes[Len(outcomes)] = "ok")
    /\ startPc = "failed" => Len(outcomes) = maxRetries
    /\ startPc \in {"started", "failed"} => ~ENABLED (SetupAttempt \/ BackoffElapsed)
    /\ startPc \in {"setup", "backoff"} => Len(outcomes) < maxRetries

C10_Witness ==
    /\ startPc = "started"
    /\ Len(outcomes) = 2
    /\ outcomes[1] # "ok"
    /\ outcomes[2] = "ok"
    /\ client = 2

Failed(k) == outcomes[k] # "ok"
RECURSIVE Sum(_)
Sum(seq) == IF seq = <<>> THEN 0 ELSE Head(seq) + Sum(Tail(seq))

\* C11: the delay inserted after failed attempt i (zero-indexed) is 2^i
\* seconds and none follows the final attempt; two failures then a success
\* give 3 attempts and 2^0 + 2^1 = 3 seconds of delay in total.
C11_ExponentialBackoff ==
    /\ \A k \in 1..Len(delays) : Failed(k) /\ delays[k] = (2 ^ (k - 1)) * 1000
    /\ Len(delays) <= maxRetries - 1
    /\ startPc = "backoff" => Len(delays) = Len(outcomes)
    /\ startPc \in {"setup", "failed"} => Len(delays) = Len(outcomes) - (IF startPc = "failed" THEN 1 ELSE 0)
    /\ startPc = "started" => Len(delays) = Len(outcomes) - 1
    /\ (startPc = "started" /\ Len(outcomes) = 3)
            => (delays = <<1000, 2000>> /\ Sum(delays) = 3000)

C11_Witness ==
    /\ startPc = "started"
    /\ Len(outcomes) = 3
    /\ Failed(1) /\ Failed(2) /\ outcomes[3] = "ok"
    /\ Sum(delays) = 3000

\* C12: with a client that always fails, start raises after exactly 3
\* attempts; earlier failures are retried; what reaches the caller is the
\* last attempt's failure wrapped in a message naming the service; no
\* service is returned.
C12_ExhaustedRetriesRaise ==
    /\ startPc = "failed"
        => /\ Len(outcomes) = 3
           /\ \A k \in 1..3 : Failed(k)
           /\ startError = [service |-> "virtuals-acp", cause |-> outcomes[3]]
           /\ client = 0
    /\ startPc # "failed" => startError = [service |-> "", cause |-> ""]
    /\ (Len(outcomes) \in {1, 2} /\ Failed(Len(outcomes)))
        => startPc \in {"backoff", "setup"}
    /\ (Len(outcomes) = 3 /\ Failed(3)) => startPc = "failed"

C12_Witness ==
    /\ startPc = "failed"
    /\ outcomes[1] = "contract client build failed"
    /\ outcomes[3] = "AcpClient constructor failed"
    /\ startError.cause = "AcpClient constructor failed"

SettingAbsent == ~settings.privateKey \/ ~settings.entityId \/ ~settings.agentAddress
SetupErrors == {"ACP_WALLET_PRIVATE_KEY is required", "ACP_ENTITY_ID is required",
                "ACP_AGENT_WALLET_ADDRESS is required"}

\* C13: if any of the three required settings is absent, start fails with a
\* setup error and no contract client or protocol client is constructed in
\* any attempt.
C13_MissingSettingFatal ==
    SettingAbsent
        => /\ contractBuilt = {}
           /\ clientBuilt = {}
           /\ client = 0
           /\ startPc # "started"
           /\ \A k \in 1..Len(outcomes) : outcomes[k] \in SetupErrors
           /\ Len(outcomes) = maxRetries
                => (startPc = "failed" /\ startError.cause \in SetupErrors)

C13_Witness ==
    /\ settings.privateKey /\ settings.entityId /\ ~settings.agentAddress
    /\ startPc = "failed"
    /\ Len(outcomes) = 3
    /\ startError.cause = "ACP_AGENT_WALLET_ADDRESS is required"

\* C14: failed attempts leave no partial state: this.client is unset or holds
\* the client object built by the single successful attempt; an object of a
\* failed attempt is never stored, and every attempt builds its own.
C14_NoPartialClient ==
    /\ client = 0 \/ (client \in clientBuilt /\ outcomes[client] = "ok")
    /\ \A k \in 1..Len(outcomes) : Failed(k) => (client # k /\ k \notin clientBuilt)
    /\ Cardinality(clientBuilt) <= 1
    /\ clientBuilt \subseteq contractBuilt
    /\ contractBuilt \subseteq 1..Len(outcomes)
    /\ (client = 0) <=> (startPc # "started")

C14_Witness ==
    /\ startPc = "started"
    /\ Len(outcomes) = 3
    /\ outcomes[2] = "AcpClient constructor failed"
    /\ client = 3
    /\ contractBuilt = {1, 2, 3}
    /\ clientBuilt = {3}

\* The last argument updateJobTypeRegistry was called with.
LastUpdate(seq) == seq[Len(seq)]

\* C15: updateJobTypeRegistry is idempotent: a call with the argument of the
\* call just before it leaves the registry as that call left it,
\* merge(merge(R, U), U) = merge(R, U), for every registry R and update U.
C15_MergeIdempotent ==
    [][(applied # <<>> /\ applied' = Append(applied, LastUpdate(applied)))
          => registry' = registry]_vars

\* The same update was applied twice, it overwrote an entry and another
\* entry of the registry was there before it.
C15_Witness ==
    /\ Len(applied) = 2
    /\ applied[1] = applied[2]
    /\ DOMAIN applied[1] = {"swap"}
    /\ DOMAIN registry = {"swap", "chat"}

\* C16: updateJobTypeRegistry(U) sets every key of U to U's entry as a whole,
\* leaves every other entry as it was and removes no key; a job whose type is
\* looked up afterwards is routed by the entry the registry then holds.
C16_UpdateReplacesWhole ==
    [][/\ Len(applied') = Len(applied) + 1 =>
            LET U == LastUpdate(applied')
            IN  /\ DOMAIN registry' = (DOMAIN registry) \cup (DOMAIN U)
                /\ \A k \in DOMAIN U : registry'[k] = U[k]
                /\ \A k \in (DOMAIN registry) \ (DOMAIN U) :
                        registry'[k] = registry[k]
       /\ \A j \in JobIds :
            (/\ pc[j] = "getAccount"
             /\ pc'[j] \notin {"getAccount", "raised"}
             /\ jobName[j] \in DOMAIN registry) =>
                LET e == registry[jobName[j]]
                IN  /\ config'[j] = [found |-> TRUE, handlerType |-> e.handlerType,
                                     handler |-> e.handler]
                    /\ (e.handlerType = "predetermined" /\ e.handler # NoHandler)
                          => /\ Len(invoked'[j]) = 1
                             /\ invoked'[j][1].handler = e.handler
                    /\ e.handlerType = "eliza"
                          => invoked'[j] = <<>> /\ jobPhase'[j] # Unread
                    /\ (e.handlerType = "predetermined") => jobPhase'[j] = Unread
      ]_vars

\* An update replaced the predetermined entry of "chat" by an eliza entry,
\* left "swap" alone, and a "chat" job was then given to the eliza path.
C16_Witness ==
    \E j \in JobIds :
        /\ applied = <<[k \in {"chat"} |-> Eliza]>>
        /\ registry = [k \in {"swap", "chat"} |-> Eliza]
        /\ jobName[j] = "chat"
        /\ config[j].handlerType = "eliza"
        /\ InElizaPath(j)

\* C17: the registry of a new service is the default registry overlaid with
\* the configured entries; the default registry is empty, so with no
\* configuration the registry is empty; no two services hold the same
\* registry object and none holds the object it was configured with.
C17_ConstructedRegistry ==
    /\ DOMAIN createDefaultJobTypeRegistry = {}
    /\ updates = 0 => registry \in ConfigInputs
    /\ \A a \in 1..Len(instances) :
        LET cfg == ConfigAt(instances[a].configRef)
            reg == instances[a].registry
        IN  /\ DOMAIN reg = (DOMAIN createDefaultJobTypeRegistry) \cup (DOMAIN cfg)
            /\ \A k \in DOMAIN cfg : reg[k] = cfg[k]
            /\ \A k \in (DOMAIN reg) \ (DOMAIN cfg) :
                    reg[k] = createDefaultJobTypeRegistry[k]
            /\ instances[a].configRef = "none" => DOMAIN reg = {}
            /\ \A b \in 1..Len(instances) :
                /\ a # b => instances[a].registryObj # instances[b].registryObj
                /\ instances[a].registryObj # ConfigObject(instances[b].configRef)

\* Two services were constructed from one configuration object, and their
\* registries hold its entries.
C17_Witness ==
    /\ Len(instances) = 2
    /\ instances[1].configRef = "A"
    /\ instances[2].configRef = "A"
    /\ instances[1].registry = ConfigA
    /\ instances[2].registry = ConfigA

\* C18: every call of a forwarding method makes one call of the client
\* method of the same name and no second one, hands the caller the value the
\* client returned, or raises the failure the client raised, and leaves the
\* registry and the client as they were.
C18_QueriesForwardOnce ==
    /\ [](\A q \in QueryIds :
            LET c == queries[q]
            IN  /\ c.pc # "idle" =>
                    /\ Len(c.clientCalls) = 1
                    /\ c.clientCalls[1].method = c.method
                /\ c.pc \notin {"idle", "pending"} =>
                    IF c.settled \in ClientResults
                    THEN c.pc = "returned" /\ c.result = c.settled
                    ELSE c.pc = "raised" /\ c.error = c.settled)
    /\ [][queries' # queries =>
            /\ registry' = registry
            /\ client' = client
            /\ outcomes' = outcomes]_vars

\* The client failed a getJobById call and the caller got that failure.
C18_Witness ==
    \E q \in QueryIds :
        /\ queries[q].method = "getJobById"
        /\ queries[q].pc = "raised"
        /\ queries[q].error = "e2"
        /\ client # 0

\* C19: a job whose registry entry is predetermined and has no handler gets
\* no handler invoked, no accept, reject, createRequirement or deliver call
\* and no message emitted to the runtime, and the callback ends without
\* raising.
C19_MissingHandlerTolerated ==
    \A j \in JobIds :
        (/\ config[j].found
         /\ config[j].handlerType = "predetermined"
         /\ config[j].handler = NoHandler) =>
            /\ invoked[j] = <<>>
            /\ calls[j] = <<>>
            /\ connected[j] = <<>>
            /\ emitted[j] = <<>>
            /\ reply[j] = NoReply
            /\ ~InElizaPath(j)
            /\ pc[j] = "done"

\* The entry of a "swap" job was read, it was predetermined without a
\* handler, and the callback has ended.
C19_Witness ==
    \E j \in JobIds :
        /\ jobName[j] = "swap"
        /\ config[j] = [found |-> TRUE, handlerType |-> "predetermined",
                        handler |-> NoHandler]
        /\ pc[j] = "done"

\* C20: a job whose registry entry has a handlerType that is neither
\* 'predetermined' nor 'eliza' gets no handler invoked, no accept, reject,
\* createRequirement or deliver call and no message emitted to the runtime.
C20_UnknownHandlerTypeNoAction ==
    \A j \in JobIds :
        (/\ config[j].found
         /\ config[j].handlerType \notin {"predetermined", "eliza"}) =>
            /\ invoked[j] = <<>>
            /\ calls[j] = <<>>
            /\ connected[j] = <<>>
            /\ emitted[j] = <<>>
            /\ reply[j] = NoReply
            /\ ~InElizaPath(j)
            /\ pc[j] = "done"

\* The entry of a "chat" job was read and its handlerType was 'custom'.
C20_Witness ==
    \E j \in JobIds :
        /\ jobName[j] = "chat"
        /\ config[j].found
        /\ config[j].handlerType = "custom"
        /\ pc[j] = "done"

\* The routing invocation of job j has issued the call op on the job.
Called(j, op) == \E k \in 1..Len(calls[j]) : calls[j][k].op = op

\* C21: the wait for the reply has no timeout: a routing invocation that
\* waits for the reply callback stays there until the callback is invoked,
\* and while no reply has been received neither deliver nor reject is issued
\* for a TRANSACTION/EVALUATION job.
C21_NoReplyNoOutcome ==
    /\ [](\A j \in JobIds :
            (TransactionCase(j) /\ ~reply[j].received) =>
                /\ ~Called(j, "deliver")
                /\ ~Called(j, "reject")
                /\ pc[j] = "awaitReply" => ~Finished(j))
    /\ [][\A j \in JobIds :
            (pc[j] = "awaitReply" /\ pc'[j] # "awaitReply") => reply'[j].received]_vars

\* The message of a job was handed to the pipeline, which has not replied.
C21_Witness ==
    \E j \in JobIds :
        /\ pc[j] = "awaitReply"
        /\ Len(emitted[j]) = 1
        /\ ~reply[j].received
        /\ calls[j] = <<>>

\* The requirement's query is one the documented capability check refuses:
\* longer than 10000 characters, or containing 'illegal' or 'harmful'.
Unsupported(q) ==
    \/ q.length > 10000
    \/ q.words \cap {"illegal", "harmful"} # {}

C23_CapabilityFiltersQueries ==
    \A j \in JobIds :
        (InElizaPath(j) /\ RequestCase(j)) =>
            /\ calls[j] # <<>>
            /\ IF Unsupported(requirement[j])
               THEN /\ calls[j][1].op = "reject"
                    /\ calls[j][1].arg = Str(CapabilityRejectReason)
               ELSE calls[j][1].op = "accept"

\* The calls handleGeneralQuery and its callback have issued on the job.
HandlerOps == Ops(handlerRun.calls)
HandlerCount(op) ==
    Cardinality({k \in 1..Len(handlerRun.calls) : handlerRun.calls[k].op = op})
HandlerRequestCase ==
    handlerRun.phase = "REQUEST" /\ handlerRun.nextPhase = "NEGOTIATION"
HandlerTransactionCase ==
    handlerRun.phase = "TRANSACTION" /\ handlerRun.nextPhase = "EVALUATION"
HandlerEnded == handlerRun.pc \in {"returned", "raised"}

\* C24 as stated: for a TRANSACTION/EVALUATION job, once the pipeline has
\* replied, with or without text, handleGeneralQuery has called exactly one
\* of deliver and reject on the job.
C24_HandlerDeliversOrRejects ==
    (HandlerTransactionCase /\ handlerRun.replies # <<>>) =>
        HandlerCount("deliver") + HandlerCount("reject") = 1

\* The query is one canHandleQuery refuses according to the claim: longer
\* than 10000 characters, or holding a spelling of 'illegal', 'harmful' or
\* 'dangerous'.
Refused(q) ==
    \/ q.length > 10000
    \/ q.words \cap {"illegal", "harmful", "dangerous", "Harmful", "DANGEROUS"} # {}

\* C25: in the REQUEST/NEGOTIATION branch of handleGeneralQuery a refused
\* query yields one reject and no accept; any other query yields accept
\* first and no reject, and createRequirement follows accept if and only if
\* accept returned: if accept raises, the handler raises with accept as its
\* only call.
C25_CanHandleQueryGate ==
    HandlerRequestCase =>
        IF Refused(handlerRun.query)
        THEN /\ HandlerOps = <<"reject">>
             /\ handlerRun.calls[1].arg = Str(CapabilityRejectReason)
        ELSE /\ HandlerCount("reject") = 0
             /\ handlerRun.calls # <<>>
             /\ handlerRun.calls[1].op = "accept"
             /\ handlerRun.calls[1].status = "ok" =>
                    HandlerOps = <<"accept", "createRequirement">>
             /\ handlerRun.calls[1].status = "threw" =>
                    HandlerOps = <<"accept">> /\ handlerRun.pc = "raised"
             /\ handlerRun.calls[1].status = "pending" => HandlerOps = <<"accept">>

\* A query holding 'DANGEROUS' was refused and the job rejected.
C25_Witness ==
    /\ HandlerRequestCase
    /\ "DANGEROUS" \in handlerRun.query.words
    /\ HandlerOps = <<"reject">>
    /\ handlerRun.pc = "returned"

\* C25 as stated: a refused query yields one reject and no accept, and any
\* other query yields accept then createRequirement and no reject.
C25_AcceptedAlwaysRequires ==
    (HandlerRequestCase /\ HandlerEnded) =>
        IF Refused(handlerRun.query)
        THEN HandlerOps = <<"reject">>
        ELSE HandlerOps = <<"accept", "createRequirement">>

\* C30 as stated: handleGeneralQuery never calls both deliver and reject on
\* the job and calls deliver at most once, whatever the pipeline replies and
\* whichever recording fails.
C30_HandlerOneOutcome ==
    /\ ~(HandlerCount("deliver") >= 1 /\ HandlerCount("reject") >= 1)
    /\ HandlerCount("deliver") <= 1

\* Nothing but the account lookup has been done for the job.
Untouched(j) ==
    /\ config[j] = NoConfig
    /\ invoked[j] = <<>>
    /\ calls[j] = <<>>
    /\ connected[j] = <<>>
    /\ emitted[j] = <<>>
    /\ ~InElizaPath(j)

\* C26: a job callback makes one account lookup on the client, and until it
\* has settled the registry is not read and nothing else is done; if the
\* lookup fails no handler is invoked, nothing is submitted to the pipeline,
\* no accept, reject, createRequirement or deliver is issued, and the
\* callback raises to the client that invoked it.
C26_AccountLookupFirst ==
    \A j \in JobIds :
        /\ pc[j] # "idle" => lookups[j] = 1
        /\ account[j] = "none" => pc[j] = "idle"
        /\ account[j] \in {"none", "pending"} => Untouched(j)
        /\ account[j] = "threw" => Untouched(j) /\ pc[j] = "raised"

\* The account lookup of a job failed and its callback raised.
C26_Witness ==
    \E j \in JobIds :
        /\ account[j] = "threw"
        /\ lookups[j] = 1
        /\ pc[j] = "raised"

\* C27: a routing invocation of the eliza path never issues both deliver and
\* reject on its job, and never both accept and reject, whichever external
\* call fails.
C27_NoOpposingActions ==
    \A j \in JobIds :
        /\ ~(Called(j, "deliver") /\ Called(j, "reject"))
        /\ ~(Called(j, "accept") /\ Called(j, "reject"))

\* job.deliver raised, and the invocation ended with deliver as its only
\* call.
C27_Witness ==
    \E j \in JobIds :
        /\ TransactionCase(j)
        /\ pc[j] = "done"
        /\ Len(calls[j]) = 1
        /\ calls[j][1].op = "deliver"
        /\ calls[j][1].status = "threw"

\* The number of deliver and reject calls issued on job j.
Outcomes(j) ==
    Cardinality({k \in 1..Len(calls[j]) : calls[j][k].op \in {"deliver", "reject"}})
SettledBy(j) == {k \in 1..Len(callbacks[j]) : callbacks[j][k].settled}

\* C28: however often and in whatever order the pipeline invokes the reply
\* callback of a submission, the routing invocation issues at most one
\* deliver or reject; it is the one of the first invocation to settle the
\* promise, and later replies change nothing of it.
C28_OneOutcomePerSubmission ==
    /\ [](\A j \in JobIds :
            TransactionCase(j) =>
                /\ Outcomes(j) <= 1
                /\ Cardinality(SettledBy(j)) <= 1
                /\ Outcomes(j) = 1 =>
                    \E k \in SettledBy(j) :
                        LET content == callbacks[j][k].content
                        IN  IF calls[j][1].op = "deliver"
                            THEN /\ HasText(content)
                                 /\ calls[j][1].arg = [type |-> "text", value |-> content.text]
                            ELSE calls[j][1].arg = Str(ProcessRejectReason))
    /\ [][\A j \in JobIds :
            (TransactionCase(j) /\ calls[j] # <<>>) =>
                Ops(calls'[j]) = Ops(calls[j])]_vars

\* The callback was invoked twice with text; the second invocation was the
\* first to have its reply recorded and the job was delivered its text, once.
C28_Witness ==
    \E j \in JobIds :
        /\ Len(callbacks[j]) = 2
        /\ callbacks[j][1].content.text = "answer A"
        /\ callbacks[j][1].pc = "returned"
        /\ callbacks[j][2].content.text = "answer B"
        /\ callbacks[j][2].settled
        /\ Len(calls[j]) = 1
        /\ calls[j][1].op = "deliver"
        /\ calls[j][1].arg.value = "answer B"

\* runtime.createMemory of the reply of job j has settled.
RecordSettled(j) == HasText(reply[j]) /\ pc[j] \notin {"awaitReply", "createMemory"}

C35_FormatElizaResponse ==
    [][Len(handlerRun'.replies) = Len(handlerRun.replies) + 1 =>
        LET made == handlerRun'.replies[Len(handlerRun'.replies)]
            response == made.content.text
            last == handlerRun'.calls[Len(handlerRun'.calls)]
        IN  HasText(made.content) =>
                /\ made.pc = "deliver"
                /\ Len(handlerRun'.calls) = Len(handlerRun.calls) + 1
                /\ last.op = "deliver"
                /\ IF handlerRun.format = "json" /\ response = JsonText
                   THEN last.arg.type = "object" /\ last.arg.value # response
                   ELSE last.arg = [type |-> "text", value |-> response]]_vars

\* For a requirement expecting json, a response that parses was formatted as
\* an object and one that does not parse as text.
C35_Witness ==
    /\ handlerRun.format = "json"
    /\ Len(handlerRun.replies) = 2
    /\ handlerRun.replies[1].content.text = JsonText
    /\ handlerRun.replies[2].content.text = "answer A"
    /\ handlerRun.calls[1].arg.type = "object"
    /\ handlerRun.calls[2].arg = [type |-> "text", value |-> "answer A"]

\* C34 as stated: createNotification returns null without calling the job's
\* notification operation when no job is found or the job has no such
\* operation; when the operation was called and returned, it returns the
\* memo identifier as a string, for every identifier, 0 included; a failure
\* of the lookup or of the operation is raised to the caller.
C34_NotificationResult ==
    /\ notifyRun.pc = "returned" =>
        IF notifyRun.job # "job with createNotification"
        THEN notifyRun.result = Null /\ notifyRun.notified = 0
        ELSE /\ notifyRun.notified = 1
             /\ notifyRun.result.kind = "string"
             /\ notifyRun.result.text = (IF notifyRun.memoId = 0 THEN "0" ELSE "7")
    /\ notifyRun.pc = "raised" => notifyRun.error \in ClientFailures
    /\ notifyRun.pc \in {"notify", "returned", "raised"} => Len(notifyRun.clientCalls) = 1

\* The handler or path the routing invocation of job j takes when the
\* registry is reg: the one of the entry it has read or, while it is still
\* suspended on the account lookup, of the entry it reads when it resumes.
PathOf(j, reg) ==
    LET cfg == IF pc[j] = "getAccount" THEN Lookup(reg, jobName[j]) ELSE config[j]
    IN  [route |-> Route(cfg),
         handler |-> IF Route(cfg) = "handler" THEN cfg.handler ELSE NoHandler]

\* C32 as stated: a registry update applied while the callback of a job is
\* suspended, on the account lookup or on the inference reply, never changes
\* the handler or path that job takes.
C32_RoutingFixedAtInvocation ==
    [][registry' # registry =>
        \A j \in JobIds :
            pc[j] \in {"getAccount", "awaitReply"} =>
                PathOf(j, registry') = PathOf(j, registry)]_vars

\* C31: with the callbacks of several jobs in progress at once, a reply
\* settles only the routing invocation whose submission it answers: the
\* step that hands a reply to the callback of job a, and the step that
\* resolves its promise, leave every other job's invocation where it was,
\* and every deliverable delivered on a job is the one built from the reply
\* to that job's submission.
C31_ReplySettlesOwnInvocation ==
    /\ [](\A j \in ConcurrentJobs : \A k \in 1..Len(calls[j]) :
            calls[j][k].op = "deliver" =>
                /\ reply[j].received
                /\ calls[j][k].arg = Deliverable(reply[j]))
    /\ [][\A a \in ConcurrentJobs :
            \/ reply'[a] # reply[a]
            \/ pc[a] = "createMemory" /\ pc'[a] # "createMemory"
            => \A b \in ConcurrentJobs \ {a} :
                    /\ pc'[b] = pc[b]
                    /\ calls'[b] = calls[b]
                    /\ reply'[b] = reply[b]]_vars

\* Two invocations that were answered with different texts each have their
\* deliver call in flight, each with its own text.
C31_Witness ==
    /\ pc[1] = "deliver" /\ pc[2] = "deliver"
    /\ calls[1][Len(calls[1])] =
            [op |-> "deliver", arg |-> [type |-> "text", value |-> "answer B"],
             status |-> "pending"]
    /\ calls[2][Len(calls[2])] =
            [op |-> "deliver", arg |-> [type |-> "text", value |-> "answer A"],
             status |-> "pending"]

============================================================================
